---- MODULE Spec2Model ----
(***************************************************************************)
(* A model of the OpMark tokenizer (src/src/parser.rs) and of the marks it *)
(* produces (src/src/mark.rs).                                             *)
(*                                                                         *)
(* A Rust String is a sequence of one-character strings; every character  *)
(* of the model is ASCII, so byte offsets and character offsets coincide.  *)
(* Offsets are 0-based and ranges half-open, as in Rust.  An Option is a   *)
(* sequence of length 0 (None) or 1 (Some).                                *)
(***************************************************************************)
EXTENDS Integers, Sequences, FiniteSets, TLC

VARIABLES
    input,            \* the document handed to Parser::new
    overflow_checks,  \* build profile: TRUE = overflow panics, FALSE = wraps
    parser,           \* the Parser struct
    out,              \* the marks returned by the pulls so far
    at,               \* at[i]: offset in input where out[i] was matched, or -1
    last              \* outcome of the last pull: start | some | none | panic

vars == <<input, overflow_checks, parser, out, at, last>>

(***************************************************************************)
(* Strings                                                                 *)
(***************************************************************************)
NL == "\n"

\* the backtick character (a string of the module cannot hold one)
BT == "backtick"

Digits == {"0", "1", "2", "3", "4", "5", "6", "7", "8", "9"}

DigitValue(c) ==
    CASE c = "0" -> 0 [] c = "1" -> 1 [] c = "2" -> 2 [] c = "3" -> 3
      [] c = "4" -> 4 [] c = "5" -> 5 [] c = "6" -> 6 [] c = "7" -> 7
      [] c = "8" -> 8 [] c = "9" -> 9

Min(a, b) == IF a <= b THEN a ELSE b

Max(a, b) == IF a >= b THEN a ELSE b

\* str[b..e]; the caller has checked SliceOk
Slice(str, b, e) == SubSeq(str, b + 1, e)

\* str[b..]
SliceFrom(str, b) == SubSeq(str, b + 1, Len(str))

\* the range check Rust makes on str[b..e]; a failed check panics
SliceOk(str, b, e) == b <= e /\ e <= Len(str)

StartsWith(str, pat) ==
    /\ Len(pat) <= Len(str)
    /\ SubSeq(str, 1, Len(pat)) = pat

\* str.find(pat): <<i>> for the first offset where pat occurs, <<>> if none
Find(str, pat) ==
    LET hits == {i \in 0..(Len(str) - Len(pat)) :
                    SubSeq(str, i + 1, i + Len(pat)) = pat}
    IN  IF hits = {} THEN <<>>
        ELSE <<CHOOSE i \in hits : \A j \in hits : i <= j>>

\* str.find(&[c1, c2, ...][..]): first offset of any character of the set
FindAny(str, set) ==
    LET hits == {i \in 0..(Len(str) - 1) : str[i + 1] \in set}
    IN  IF hits = {} THEN <<>>
        ELSE <<CHOOSE i \in hits : \A j \in hits : i <= j>>

\* str.find("\n").unwrap_or_else(|| str.len())
LineEnd(str) ==
    LET f == Find(str, <<NL>>) IN IF f = <<>> THEN Len(str) ELSE f[1]

\* str.split(sep).collect(): the pieces between the separators, in order
RECURSIVE Split(_, _)
Split(str, sep) ==
    LET f == Find(str, <<sep>>)
    IN  IF f = <<>> THEN <<str>>
        ELSE <<Slice(str, 0, f[1])>> \o Split(SliceFrom(str, f[1] + 1), sep)

(***************************************************************************)
(* Machine integers                                                        *)
(***************************************************************************)
\* u8::MAX: ordinals, heading and indent counters are u8
U8Max == 255

\* usize::MAX of a 16-bit target, the narrowest pointer width Rust builds
\* for; the arithmetic below is the same at every width
UsizeMax == 65535

\* n + 1 on an unsigned type with maximum max: <<n + 1>>, or at overflow
\* <<>> (panic, overflow checks on) or <<0>> (wrap, overflow checks off)
AddOne(n, max, oc) ==
    IF n < max THEN <<n + 1>>
    ELSE IF oc THEN <<>> ELSE <<0>>

\* str.parse::<usize>(): <<value>> for Ok, <<>> for Err.  An optional
\* leading "+", then one or more digits, the value at most usize::MAX.
RECURSIVE ParseDigits(_, _)
ParseDigits(str, acc) ==
    IF str = <<>> THEN <<acc>>
    ELSE IF Head(str) \notin Digits THEN <<>>
    ELSE IF acc > (UsizeMax - DigitValue(Head(str))) \div 10 THEN <<>>
    ELSE ParseDigits(Tail(str), acc * 10 + DigitValue(Head(str)))

ParseUsize(str) ==
    LET body == IF str # <<>> /\ Head(str) = "+" THEN Tail(str) ELSE str
    IN  IF body = <<>> THEN <<>> ELSE ParseDigits(body, 0)

\* The exponent of a float literal: e or E, an optional sign, digits
IsExp(str) ==
    /\ str # <<>>
    /\ Head(str) \in {"e", "E"}
    /\ LET r == Tail(str)
           d == IF r # <<>> /\ Head(r) \in {"+", "-"} THEN Tail(r) ELSE r
       IN  d # <<>> /\ \A i \in 1..Len(d) : d[i] \in Digits

\* the longest prefix of str made of digits
RECURSIVE DigitRun(_)
DigitRun(str) ==
    IF str # <<>> /\ Head(str) \in Digits
    THEN <<Head(str)>> \o DigitRun(Tail(str))
    ELSE <<>>

RECURSIVE StripZerosRight(_)
StripZerosRight(str) ==
    IF str # <<>> /\ str[Len(str)] = "0"
    THEN StripZerosRight(SubSeq(str, 1, Len(str) - 1))
    ELSE str

RECURSIVE StripZerosLeft(_)
StripZerosLeft(str) ==
    IF str # <<>> /\ Head(str) = "0" THEN StripZerosLeft(Tail(str)) ELSE str

\* str.parse::<f32>(): <<value>> for Ok, <<>> for Err.  Rust accepts
\*   sign? ( inf | infinity | nan | digits [. digits*] exp? | . digits exp? )
\* A value without exponent is kept exact, as its sign, its integer digits
\* and its fraction digits with the insignificant zeros dropped; a value
\* with an exponent is kept as its literal.  (f32 rounding of literals with
\* more than 7 significant digits is not modelled.)
ParseF32(str) ==
    LET neg   == str # <<>> /\ Head(str) = "-"
        body  == IF str # <<>> /\ Head(str) \in {"+", "-"}
                 THEN Tail(str) ELSE str
        int   == DigitRun(body)
        r1    == SliceFrom(body, Len(int))
        dot   == r1 # <<>> /\ Head(r1) = "."
        frac  == IF dot THEN DigitRun(Tail(r1)) ELSE <<>>
        r2    == IF dot THEN SliceFrom(r1, 1 + Len(frac)) ELSE r1
    IN  IF body \in {<<"i", "n", "f">>,
                     <<"i", "n", "f", "i", "n", "i", "t", "y">>}
        THEN <<[kind |-> "inf", neg |-> neg]>>
        ELSE IF body = <<"n", "a", "n">> THEN <<[kind |-> "nan"]>>
        ELSE IF int = <<>> /\ frac = <<>> THEN <<>>
        ELSE IF r2 = <<>>
        THEN <<[kind |-> "num", neg |-> neg,
                int |-> StripZerosLeft(int), frac |-> StripZerosRight(frac)]>>
        ELSE IF IsExp(r2) THEN <<[kind |-> "literal", text |-> str]>>
        ELSE <<>>

(***************************************************************************)
(* Marks (src/src/mark.rs)                                                 *)
(***************************************************************************)
\* impl From<u8> for Heading: the level, saturating at H5
Heading_from(n) == IF n <= 4 THEN n ELSE 5

\* impl From<u8> for IndentLevel; to_int is the identity on 0..5
IndentLevel_from(n) == IF n <= 4 THEN n ELSE 5

IndentLevels == 0..5

Listing_None == [kind |-> "None"]

Listing_Ordered(n, level) == [kind |-> "Ordered", number |-> n, indent |-> level]

Listing_Unordered(level) == [kind |-> "Unordered", indent |-> level]

StyleText_new ==
    [bold |-> FALSE, code |-> FALSE, heading |-> 0, hyperlink |-> <<>>,
     italics |-> FALSE, listing |-> Listing_None, quote |-> FALSE,
     small |-> FALSE, strikethrough |-> FALSE, underline |-> FALSE]

with_code(style) == [style EXCEPT !.code = TRUE]

with_heading(style, h) == [style EXCEPT !.heading = h]

with_text_hyperlink(style, url) == [style EXCEPT !.hyperlink = url]

with_listing(style, l) == [style EXCEPT !.listing = l]

with_quote(style) == [style EXCEPT !.quote = TRUE]

StyleImage_new ==
    [align_h |-> "Auto", hyperlink |-> <<>>, width |-> <<>>, height |-> <<>>]

with_align_h(style, a) == [style EXCEPT !.align_h = a]

with_height(style, n) == [style EXCEPT !.height = <<n>>]

with_image_hyperlink(style, url) == [style EXCEPT !.hyperlink = url]

with_width(style, n) == [style EXCEPT !.width = <<n>>]

Mark_CodeBlock(body, language) ==
    [type |-> "CodeBlock", body |-> body, language |-> language]

Mark_Image(url, title, style) ==
    [type |-> "Image", url |-> url, title |-> title, image_style |-> style]

Mark_NewLine == [type |-> "NewLine"]

Mark_Transition(order) ==
    [type |-> "Transition", order |-> order, children |-> <<>>]

Mark_TransitionEnd == [type |-> "TransitionEnd"]

Mark_Page == [type |-> "Page", children |-> <<>>]

Mark_Separator(dir) == [type |-> "Separator", dir |-> dir]

Mark_Text(text, style) == [type |-> "Text", text |-> text, style |-> style]

(***************************************************************************)
(* Parser (src/src/parser.rs)                                              *)
(***************************************************************************)
\* What a production or a pull hands back.  rem is the length of the
\* buffer when the first character of the mark was at its head, and -1
\* for a mark that stands for no character of the document.
RSome(m, p, rem) == [tag |-> "some", mark |-> m, p |-> p, rem |-> rem]

RNone == [tag |-> "none"]

\* Parser::next returned None: the end of the input
REnd(p) == [tag |-> "end", p |-> p]

RPanic == [tag |-> "panic"]

reset_indent_orderer_number_map == [l \in IndentLevels |-> 0]

\* Parser::new with a plausible slip: the counter starts at 1, so that no
\* Transition(0) opens the first page
Parser_new_counter_1(s) ==
    [s |-> s,
     first_page_return |-> FALSE,
     indent_level |-> 0,
     indent_orderer_number_map |-> reset_indent_orderer_number_map,
     is_line_start |-> TRUE,
     is_ordered |-> FALSE,
     is_unordered |-> FALSE,
     style_text |-> StyleText_new,
     transition_order |-> 1,
     ordered_list_current_indent_level_int |-> 0]

Parser_new(s) ==
    [s |-> s,
     first_page_return |-> FALSE,
     indent_level |-> 0,
     indent_orderer_number_map |-> reset_indent_orderer_number_map,
     is_line_start |-> TRUE,
     is_ordered |-> FALSE,
     is_unordered |-> FALSE,
     style_text |-> StyleText_new,
     transition_order |-> 0,
     ordered_list_current_indent_level_int |-> 0]

\* n - 1 on a usize: <<n - 1>>; from 0, <<>> for the panic of a build with
\* overflow checks and <<max>> for the wrap of a build without
SubOne(n, max, oc) ==
    IF n > 0 THEN <<n - 1>> ELSE IF oc THEN <<>> ELSE <<max>>

\* What into_pages holds after a mark: the pages so far, or a panic
GOk(pages) == [tag |-> "ok", v |-> pages]

GPanic(pages) == [tag |-> "panic", v |-> pages]

\* into_pages_content with a plausible slip: no continue after the push for
\* a TransitionEnd, which is then attached like a content mark
into_pages_content_no_continue(transitions, mark, oc) ==
    LET transitions_len   == Len(transitions)
        is_transition_end == mark.type = "TransitionEnd"
        pushed ==
            IF transitions_len <= 0 \/ is_transition_end
            THEN Append(transitions, Mark_Transition(0))
            ELSE transitions
        idx == SubOne(transitions_len, UsizeMax, oc)
    IN  IF idx = <<>> THEN GPanic(pushed)
        ELSE IF idx[1] >= Len(pushed) THEN GPanic(pushed)
        ELSE GOk([pushed EXCEPT ![idx[1] + 1].children = Append(@, mark)])

\* into_pages_content with a plausible slip: the mark goes to the first
\* transition of the page instead of the current one
into_pages_content_first(transitions, mark, oc) ==
    LET transitions_len   == Len(transitions)
        is_transition_end == mark.type = "TransitionEnd"
        pushed ==
            IF transitions_len <= 0 \/ is_transition_end
            THEN Append(transitions, Mark_Transition(0))
            ELSE transitions
    IN  IF is_transition_end THEN GOk(pushed)
        ELSE GOk([pushed EXCEPT ![1].children = Append(@, mark)])

\* into_pages_content with a plausible slip: nothing is pushed for a
\* TransitionEnd, so that what follows it joins the transition before it
into_pages_content_end_ignored(transitions, mark, oc) ==
    LET transitions_len   == Len(transitions)
        is_transition_end == mark.type = "TransitionEnd"
        pushed ==
            IF transitions_len <= 0
            THEN Append(transitions, Mark_Transition(0))
            ELSE transitions
        idx == SubOne(transitions_len, UsizeMax, oc)
    IN  IF is_transition_end THEN GOk(pushed)
        ELSE IF idx = <<>> THEN GPanic(pushed)
        ELSE IF idx[1] >= Len(pushed) THEN GPanic(pushed)
        ELSE GOk([pushed EXCEPT ![idx[1] + 1].children = Append(@, mark)])

\* into_pages, a mark that is neither Page nor Transition, on the
\* transitions of the last page: push empty transition, push mark to
\* current transition.  transitions_len is read before the push.
into_pages_content(transitions, mark, oc) ==
    LET transitions_len   == Len(transitions)
        is_transition_end == mark.type = "TransitionEnd"
        pushed ==
            IF transitions_len <= 0 \/ is_transition_end
            THEN Append(transitions, Mark_Transition(0))
            ELSE transitions
        idx == SubOne(transitions_len, UsizeMax, oc)
    IN  IF is_transition_end THEN GOk(pushed)
        ELSE IF idx = <<>> THEN GPanic(pushed)
        ELSE IF idx[1] >= Len(pushed) THEN GPanic(pushed)
        ELSE GOk([pushed EXCEPT ![idx[1] + 1].children = Append(@, mark)])

\* into_pages_mark with a plausible slip: the second field takes the order
\* of the transition pushed last, greater or not
into_pages_mark_last_order(pages, mark, oc) ==
    IF mark.type = "Page" THEN GOk(Append(pages, <<mark, 0, 0>>))
    ELSE
    LET ps == IF Len(pages) <= 0 THEN Append(pages, <<Mark_Page, 0, 0>>)
              ELSE pages
        pages_len   == Len(ps)
        transitions == ps[pages_len][1].children
    IN  IF mark.type = "Transition"
        THEN GOk([ps EXCEPT
                 ![pages_len][1].children = Append(transitions, mark),
                 ![pages_len][2] = mark.order])
        ELSE LET c == into_pages_content(transitions, mark, oc)
             IN  [tag |-> c.tag,
                  v   |-> [ps EXCEPT ![pages_len][1].children = c.v]]

\* into_pages, the body of for mark in iter, on the pages so far.  A page
\* is the tuple <<Mark::Page(transitions), max_transition_idx, 0>>.
into_pages_mark(pages, mark, oc) ==
    IF mark.type = "Page" THEN GOk(Append(pages, <<mark, 0, 0>>))
    ELSE
    LET ps == IF Len(pages) <= 0 THEN Append(pages, <<Mark_Page, 0, 0>>)
              ELSE pages
        pages_len   == Len(ps)
        transitions == ps[pages_len][1].children
        max_transition_idx == ps[pages_len][2]
    IN  IF mark.type = "Transition"
        THEN GOk([ps EXCEPT
                 ![pages_len][1].children = Append(transitions, mark),
                 ![pages_len][2] = IF mark.order > max_transition_idx
                                   THEN mark.order ELSE max_transition_idx])
        ELSE LET c == into_pages_content(transitions, mark, oc)
             IN  [tag |-> c.tag,
                  v   |-> [ps EXCEPT ![pages_len][1].children = c.v]]

\* for mark in iter { ... }: the marks in turn, up to a panic
RECURSIVE into_pages_loop(_, _, _)
into_pages_loop(g, marks, oc) ==
    IF marks = <<>> \/ g.tag = "panic" THEN g
    ELSE into_pages_loop(into_pages_mark(g.v, Head(marks), oc),
                         Tail(marks), oc)

\* Parser::into_pages, on the marks the iterator yields
into_pages(marks, oc) == into_pages_loop(GOk(<<>>), marks, oc)

\* code with a plausible slip: a span left open is closed by the end of
\* the line
code_open_span(p) ==
    IF ~StartsWith(p.s, <<BT>>) THEN RNone
    ELSE
    LET this_line == Slice(p.s, 0, LineEnd(p.s))
    IN  RSome(Mark_Text(SliceFrom(this_line, 1), with_code(StyleText_new)),
              [p EXCEPT !.s = SliceFrom(p.s, Len(this_line))],
              Len(p.s))

\* Parser::code: an inline code span between two backticks
code(p) ==
    IF ~StartsWith(p.s, <<BT>>) THEN RNone
    ELSE
    LET this_line == Slice(p.s, 0, LineEnd(p.s))
        f == Find(SliceFrom(this_line, 1), <<BT>>)
    IN  IF f = <<>> THEN RNone
        ELSE
        LET end  == f[1]
            text == Slice(this_line, 1, end + 1)
        IN  IF ~SliceOk(p.s, end + 3, Len(p.s)) THEN RPanic
            ELSE RSome(Mark_Text(text, with_code(StyleText_new)),
                       [p EXCEPT !.s = SliceFrom(p.s, end + 3)],
                       Len(p.s))

\* Parser::code_block: a fenced block, three backticks on a line of their own
code_block(p) ==
    IF ~StartsWith(p.s, <<BT, BT, BT>>) THEN RNone
    ELSE
    LET f == Find(p.s, <<NL, BT, BT, BT>>)
    IN  IF f = <<>> THEN RNone
        ELSE
        LET cb_end         == f[1]
            first_line_end == LineEnd(p.s)
            first_line     == Slice(p.s, 3, first_line_end)
            language       == IF Len(first_line) > 0 THEN <<first_line>>
                              ELSE <<>>
        IN  IF ~SliceOk(p.s, first_line_end + 1, cb_end) THEN RPanic
            ELSE RSome(Mark_CodeBlock(Slice(p.s, first_line_end + 1, cb_end),
                                      language),
                       [p EXCEPT !.s = SliceFrom(p.s, cb_end + 4)],
                       Len(p.s))

\* The while loop of heading: counts the leading # of the line.  <<idx,
\* heading_level>> when it stops, <<>> when heading_level overflows u8 with
\* overflow checks on.
RECURSIVE heading_loop(_, _, _, _)
heading_loop(this_line, idx, heading_level, oc) ==
    IF this_line[idx + 1] = "#" /\ idx < Len(this_line) - 1
    THEN LET n == AddOne(heading_level, U8Max, oc)
         IN  IF n = <<>> THEN <<>>
             ELSE heading_loop(this_line, idx + 1, n[1], oc)
    ELSE <<idx, heading_level>>

\* # Heading
heading(p, oc) ==
    IF ~StartsWith(p.s, <<"#">>) THEN RNone
    ELSE
    LET line_end  == LineEnd(p.s)
        this_line == Slice(p.s, 0, line_end)
    IN  IF ~(Len(this_line) > 2) THEN RNone
        ELSE
        LET l == heading_loop(this_line, 1, 1, oc)
        IN  IF l = <<>> THEN RPanic
            ELSE
            LET idx      == l[1]
                hash_end == idx - 1
                rest     == SliceFrom(this_line, hash_end + 1)
            IN  IF ~StartsWith(rest, <<" ">>) THEN RNone
                ELSE RSome(Mark_Text(Tail(rest),
                               with_heading(StyleText_new, Heading_from(l[2]))),
                           [p EXCEPT !.s = SliceFrom(p.s, line_end),
                                     !.is_line_start = FALSE],
                           Len(p.s))

\* <url>, [title](url)
hyperlink(p) ==
    LET this_line == Slice(p.s, 0, LineEnd(p.s))
        angle     == IF StartsWith(p.s, <<"<">>)
                     THEN Find(this_line, <<">">>) ELSE <<>>
        bracket   == IF StartsWith(p.s, <<"[">>)
                     THEN Find(this_line, <<"]">>) ELSE <<>>
    IN  IF angle # <<>>
        THEN LET angle_end == angle[1]
                 url       == Slice(this_line, 1, angle_end)
             IN  RSome(Mark_Text(url, with_text_hyperlink(StyleText_new, url)),
                       [p EXCEPT !.s = SliceFrom(p.s, angle_end + 1),
                                 !.is_line_start = FALSE],
                       Len(p.s))
        ELSE IF bracket = <<>> THEN RNone
        ELSE
        LET bracket_end == bracket[1]
        IN  IF ~StartsWith(SliceFrom(this_line, bracket_end + 1), <<"(">>)
            THEN RNone
            ELSE
            LET f == Find(SliceFrom(this_line, bracket_end + 2), <<")">>)
            IN  IF f = <<>> THEN RNone
                ELSE
                LET parens_end == bracket_end + 2 + f[1]
                    title      == Slice(this_line, 1, bracket_end)
                    url        == Slice(this_line, bracket_end + 2, parens_end)
                IN  RSome(Mark_Text(title,
                                    with_text_hyperlink(StyleText_new, url)),
                          [p EXCEPT !.s = SliceFrom(p.s, parens_end + 1),
                                    !.is_line_start = FALSE],
                          Len(p.s))

\* image_option with a plausible slip: a w or h option whose suffix does
\* not parse is dropped instead of becoming the hyperlink
image_option_dropped(style, option) ==
    CASE option = <<"a", "u", "t", "o">> -> with_align_h(style, "Auto")
      [] option = <<"l", "e", "f", "t">> -> with_align_h(style, "Left")
      [] option = <<"r", "i", "g", "h", "t">> -> with_align_h(style, "Right")
      [] option = <<"c", "e", "n", "t", "e", "r">> ->
            with_align_h(style, "Center")
      [] OTHER ->
            IF StartsWith(option, <<"w">>)
            THEN LET n == ParseF32(Tail(option))
                 IN  IF n # <<>> THEN with_width(style, n[1]) ELSE style
            ELSE IF StartsWith(option, <<"h">>)
            THEN LET n == ParseF32(Tail(option))
                 IN  IF n # <<>> THEN with_height(style, n[1]) ELSE style
            ELSE with_image_hyperlink(style, option)

\* One arm of the match over an image option
image_option(style, option) ==
    CASE option = <<"a", "u", "t", "o">> -> with_align_h(style, "Auto")
      [] option = <<"l", "e", "f", "t">> -> with_align_h(style, "Left")
      [] option = <<"r", "i", "g", "h", "t">> -> with_align_h(style, "Right")
      [] option = <<"c", "e", "n", "t", "e", "r">> ->
            with_align_h(style, "Center")
      [] OTHER ->
            IF StartsWith(option, <<"w">>)
            THEN LET n == ParseF32(Tail(option))
                 IN  IF n # <<>> THEN with_width(style, n[1])
                     ELSE with_image_hyperlink(style, option)
            ELSE IF StartsWith(option, <<"h">>)
            THEN LET n == ParseF32(Tail(option))
                 IN  IF n # <<>> THEN with_height(style, n[1])
                     ELSE with_image_hyperlink(style, option)
            ELSE with_image_hyperlink(style, option)

\* for option in options.split(|): the options applied left to right
RECURSIVE image_options(_, _)
image_options(style, options) ==
    IF options = <<>> THEN style
    ELSE image_options(image_option(style, Head(options)), Tail(options))

\* ![title](src)<options>
image(p) ==
    IF ~StartsWith(p.s, <<"!", "[">>) THEN RNone
    ELSE
    LET this_line == Slice(p.s, 0, LineEnd(p.s))
        bracket   == Find(this_line, <<"]">>)
    IN  IF bracket = <<>> THEN RNone
        ELSE
        LET bracket_end == bracket[1]
        IN  IF ~StartsWith(SliceFrom(this_line, bracket_end + 1), <<"(">>)
            THEN RNone
            ELSE
            LET f == Find(SliceFrom(this_line, bracket_end + 2), <<")">>)
            IN  IF f = <<>> THEN RNone
                ELSE
                LET parens_end == bracket_end + 2 + f[1]
                    title      == Slice(this_line, 2, bracket_end)
                    url        == Slice(this_line, bracket_end + 2, parens_end)
                    angle      ==
                        IF StartsWith(SliceFrom(this_line, parens_end + 1),
                                      <<"<">>)
                        THEN Find(SliceFrom(this_line, parens_end + 2), <<">">>)
                        ELSE <<>>
                    image_end  == IF angle = <<>> THEN parens_end
                                  ELSE parens_end + angle[1] + 2
                    style      ==
                        IF angle = <<>> THEN StyleImage_new
                        ELSE image_options(StyleImage_new,
                                 Split(Slice(this_line, parens_end + 2,
                                             parens_end + 2 + angle[1]), "|"))
                IN  RSome(Mark_Image(url, title, style),
                          [p EXCEPT !.s = SliceFrom(p.s, image_end + 1),
                                    !.is_line_start = FALSE],
                          Len(p.s))

\* The while loop of indent: the leading spaces of the line.  <<idx,
\* indent_level>>, or <<>> when indent_level overflows u8 with overflow
\* checks on.
RECURSIVE indent_loop(_, _, _, _)
indent_loop(s, idx, indent_level, oc) ==
    IF s[idx + 1] = " " /\ idx < Len(s) - 1
    THEN LET n == AddOne(indent_level, U8Max, oc)
         IN  IF n = <<>> THEN <<>>
             ELSE indent_loop(s, idx + 1, n[1], oc)
    ELSE <<idx, indent_level>>

\* find indent level: <<level>>, or <<>> for a panic (the unwrap on an
\* empty line, or the overflow above)
indent(s, oc) ==
    IF s = <<>> THEN <<>>
    ELSE LET l == indent_loop(s, 0, 0, oc)
         IN  IF l = <<>> THEN <<>>
             ELSE <<IndentLevel_from(l[2] \div 2)>>

\* The while loop shared by ordered_list and transition: skips digits, but
\* never moves past the last character of the line
RECURSIVE digit_loop(_, _)
digit_loop(this_line, idx) ==
    IF this_line[idx + 1] \in Digits /\ idx < Len(this_line) - 1
    THEN digit_loop(this_line, idx + 1)
    ELSE idx

\* ordered_number with a plausible slip: > for >=, so that an item at the
\* indent of the previous one restarts at 1
ordered_number_strict(p, indent_level, oc) ==
    IF /\ p.is_ordered
       /\ p.ordered_list_current_indent_level_int > indent_level
    THEN AddOne(p.indent_orderer_number_map[indent_level], U8Max, oc)
    ELSE <<1>>

\* ordered_number with a plausible slip: the indent of the previous item is
\* not looked at, so that a deeper item resumes instead of restarting
ordered_number_resume(p, indent_level, oc) ==
    IF p.is_ordered
    THEN AddOne(p.indent_orderer_number_map[indent_level], U8Max, oc)
    ELSE <<1>>

\* The ordinal an ordered item at indent_level gets: <<n>>, or <<>> when
\* previous_number + 1 overflows u8 with overflow checks on
ordered_number(p, indent_level, oc) ==
    IF /\ p.is_ordered
       /\ p.ordered_list_current_indent_level_int >= indent_level
    THEN AddOne(p.indent_orderer_number_map[indent_level], U8Max, oc)
    ELSE <<1>>

\* 1. ordered list
ordered_list(p, oc) ==
    LET line_end  == LineEnd(p.s)
        this_line == Slice(p.s, 0, line_end)
        il        == indent(this_line, oc)
    IN  IF il = <<>> THEN RPanic
        ELSE
        LET indent_level == il[1]
            indent_width == indent_level * 2
        IN  IF ~(indent_width < Len(this_line)) THEN RPanic
            ELSE
            LET idx == digit_loop(this_line, indent_width)
            IN  IF ~StartsWith(SliceFrom(this_line, idx), <<".", " ">>)
                THEN RNone
                ELSE
                LET n == ordered_number(p, indent_level, oc)
                IN  IF n = <<>> THEN RPanic
                    ELSE RSome(
                        Mark_Text(SliceFrom(this_line, idx + 2),
                            with_listing(StyleText_new,
                                Listing_Ordered(n[1], indent_level))),
                        [p EXCEPT
                            !.indent_orderer_number_map[indent_level] = n[1],
                            !.s = SliceFrom(p.s, line_end),
                            !.is_line_start = FALSE,
                            !.is_ordered = TRUE,
                            !.ordered_list_current_indent_level_int =
                                indent_level],
                        Len(p.s))

\* > quote
quote(p) ==
    IF ~StartsWith(p.s, <<">", " ">>) THEN RNone
    ELSE
    LET line_end  == LineEnd(p.s)
        this_line == Slice(p.s, 0, line_end)
    IN  RSome(Mark_Text(SliceFrom(this_line, 2), with_quote(StyleText_new)),
              [p EXCEPT !.s = SliceFrom(p.s, line_end),
                        !.is_line_start = FALSE],
              Len(p.s))

\* ---- and ----v
separator(p) ==
    IF StartsWith(p.s, <<"-", "-", "-", "-", NL>>)
    THEN RSome(Mark_Separator("Horizontal"),
               [p EXCEPT !.s = SliceFrom(p.s, 5)], Len(p.s))
    ELSE IF StartsWith(p.s, <<"-", "-", "-", "-", "v", NL>>)
    THEN RSome(Mark_Separator("Vertical"),
               [p EXCEPT !.s = SliceFrom(p.s, 6)], Len(p.s))
    ELSE RNone

\* transition_order_of with a plausible slip: the digits that follow ---t
\* are taken as the order whatever comes after them
transition_order_of_prefix(p, this_line) ==
    IF Len(this_line) > 4
    THEN LET x == ParseUsize(DigitRun(SliceFrom(this_line, 4)))
         IN  IF x # <<>> THEN x[1] ELSE p.transition_order
    ELSE p.transition_order

\* The order of a transition line: the number after ---t when the rest of
\* the line parses as one, the counter otherwise
transition_order_of(p, this_line) ==
    IF Len(this_line) > 4
    THEN LET idx == digit_loop(this_line, 4) + 1
         IN  IF idx = Len(this_line)
             THEN LET x == ParseUsize(Slice(this_line, 4, idx))
                  IN  IF x # <<>> THEN x[1] ELSE p.transition_order
             ELSE p.transition_order
    ELSE p.transition_order

\* ---t, ---t1
transition(p, oc) ==
    IF ~StartsWith(p.s, <<"-", "-", "-", "t">>) THEN RNone
    ELSE
    LET this_line == Slice(p.s, 0, LineEnd(p.s))
        order     == transition_order_of(p, this_line)
        n         == AddOne(order, UsizeMax, oc)
    IN  IF n = <<>> THEN RPanic
        ELSE RSome(Mark_Transition(order),
                   [p EXCEPT !.transition_order = n[1],
                             !.s = SliceFrom(p.s, Len(this_line))],
                   Len(p.s))

\* - unordered list
unordered_list(p, oc) ==
    LET line_end  == LineEnd(p.s)
        this_line == Slice(p.s, 0, line_end)
        il        == indent(this_line, oc)
    IN  IF il = <<>> THEN RPanic
        ELSE
        LET indent_level == il[1]
            indent_width == indent_level * 2
        IN  IF ~StartsWith(SliceFrom(p.s, indent_width), <<"-", " ">>)
            THEN RNone
            ELSE RSome(
                Mark_Text(SliceFrom(this_line, indent_width + 1),
                    with_listing(StyleText_new,
                                 Listing_Unordered(indent_level))),
                [p EXCEPT !.s = SliceFrom(p.s, line_end),
                          !.is_line_start = FALSE,
                          !.is_unordered = TRUE],
                Len(p.s))

\* page with a plausible slip: the counter is not reset
page_keeps_counter(p) ==
    IF StartsWith(p.s, <<"-", "-", "-", NL>>)
    THEN RSome(Mark_Page, [p EXCEPT !.s = SliceFrom(p.s, 4)], Len(p.s))
    ELSE RNone

\* The line-start arm of next for a page marker: --- and a newline
page(p) ==
    IF StartsWith(p.s, <<"-", "-", "-", NL>>)
    THEN RSome(Mark_Page,
               [p EXCEPT !.s = SliceFrom(p.s, 4), !.transition_order = 0],
               Len(p.s))
    ELSE RNone

\* The line-start arm of next for a transition end: t--- and a newline
transition_end(p) ==
    IF StartsWith(p.s, <<"t", "-", "-", "-", NL>>)
    THEN RSome(Mark_TransitionEnd, [p EXCEPT !.s = SliceFrom(p.s, 5)],
               Len(p.s))
    ELSE RNone

\* The newline arm of next.  ret: the arm returned Mark::NewLine
newline(p) ==
    IF ~StartsWith(p.s, <<NL>>) THEN [ret |-> FALSE, p |-> p]
    ELSE
    LET q == [p EXCEPT !.s = Tail(p.s),
                       !.indent_level = 0,
                       !.is_line_start = TRUE,
                       !.style_text = StyleText_new]
        is_empty == q.s = <<>>
    IN  IF StartsWith(q.s, <<NL>>) \/ is_empty
        THEN [ret |-> TRUE,
              p |-> [q EXCEPT
                  !.s = IF is_empty THEN q.s ELSE SliceFrom(q.s, 1),
                  !.is_ordered = FALSE,
                  !.is_unordered = FALSE,
                  !.ordered_list_current_indent_level_int = 0,
                  !.indent_orderer_number_map =
                      reset_indent_orderer_number_map]]
        ELSE [ret |-> FALSE, p |-> q]

\* if let Some(mark) = first { return Some(mark); } and then the rest
OrElse(first, rest) == IF first.tag # "none" THEN first ELSE rest

\* if self.is_line_start { ... }: the block productions, in the order tried
block(p, oc) ==
    IF ~p.is_line_start THEN RNone
    ELSE OrElse(page(p),
         OrElse(transition(p, oc),
         OrElse(transition_end(p),
         OrElse(code_block(p),
         OrElse(heading(p, oc),
         OrElse(image(p),
         OrElse(ordered_list(p, oc),
         OrElse(quote(p),
         OrElse(separator(p),
                unordered_list(p, oc))))))))))

Toggles == {"*", "/", "$", "~", "_"}

\* toggle with a plausible slip: the flag is set instead of flipped
toggle_set(p) ==
    LET c    == Head(p.s)
        st   == p.style_text
        flip ==
            CASE c = "*" -> [st EXCEPT !.bold = TRUE]
              [] c = "/" -> [st EXCEPT !.italics = TRUE]
              [] c = "$" -> [st EXCEPT !.small = TRUE]
              [] c = "~" -> [st EXCEPT !.strikethrough = TRUE]
              [] c = "_" -> [st EXCEPT !.underline = TRUE]
    IN  [p EXCEPT !.s = Tail(p.s), !.is_line_start = FALSE,
                  !.style_text = flip]

\* The five toggle arms of next: the character is consumed and its flag
\* of the style accumulator flipped
toggle(p) ==
    LET c    == Head(p.s)
        st   == p.style_text
        flip ==
            CASE c = "*" -> [st EXCEPT !.bold = ~st.bold]
              [] c = "/" -> [st EXCEPT !.italics = ~st.italics]
              [] c = "$" -> [st EXCEPT !.small = ~st.small]
              [] c = "~" -> [st EXCEPT !.strikethrough = ~st.strikethrough]
              [] c = "_" -> [st EXCEPT !.underline = ~st.underline]
    IN  [p EXCEPT !.s = Tail(p.s), !.is_line_start = FALSE,
                  !.style_text = flip]

\* The escape arm of next: a backslash and the character after it
escape(p) ==
    IF StartsWith(p.s, <<"\\">>) /\ Len(p.s) >= 2
    THEN RSome(Mark_Text(Slice(p.s, 1, 2), StyleText_new),
               [p EXCEPT !.s = SliceFrom(p.s, 2), !.is_line_start = FALSE],
               Len(p.s))
    ELSE RNone

Specials == {"*", BT, "~", "_", "/", "$", "^", "\\", "<", "[", NL}

\* The last arm of next: the text up to the next special character, at
\* least one character long, in the accumulated style
text_run(p) ==
    LET f   == FindAny(p.s, Specials)
        end == IF f = <<>> THEN Len(p.s) ELSE Max(f[1], 1)
    IN  RSome(Mark_Text(Slice(p.s, 0, end), p.style_text),
              [p EXCEPT !.s = SliceFrom(p.s, end), !.is_line_start = FALSE],
              Len(p.s))

RECURSIVE scan(_, _)

\* The arms of the loop after the newline arm: the block productions, then
\* the inline ones; a toggle goes round the loop again
inline(q, oc) ==
    OrElse(block(q, oc),
        IF StartsWith(q.s, <<"*">>) THEN scan(toggle(q), oc)
        ELSE OrElse(code(q),
             OrElse(hyperlink(q),
                 IF q.s # <<>> /\ Head(q.s) \in Toggles
                 THEN scan(toggle(q), oc)
                 ELSE OrElse(escape(q), text_run(q)))))

\* The newline arm has run, with outcome nl, on the buffer of p
after_newline(p, nl, oc) ==
    IF nl.ret THEN RSome(Mark_NewLine, nl.p, Len(p.s))
    ELSE inline(nl.p, oc)

\* loop { ... } of next
scan(p, oc) ==
    IF p.s = <<>> THEN REnd(p)
    ELSE after_newline(p, newline(p), oc)

\* next with a plausible slip: a page marker that opens the document is
\* taken as the initial Page instead of following it
next_merged_page(p, oc) ==
    IF ~p.first_page_return
    THEN RSome(Mark_Page,
               [p EXCEPT !.first_page_return = TRUE,
                         !.s = IF StartsWith(p.s, <<"-", "-", "-", NL>>)
                               THEN SliceFrom(p.s, 4) ELSE p.s],
               -1)
    ELSE IF p.transition_order = 0
    THEN RSome(Mark_Transition(0), [p EXCEPT !.transition_order = 1], -1)
    ELSE scan(p, oc)

\* next with a plausible slip: the end of the input rearms the tokenizer
next_restart(p, oc) ==
    IF ~p.first_page_return
    THEN RSome(Mark_Page, [p EXCEPT !.first_page_return = TRUE], -1)
    ELSE IF p.transition_order = 0
    THEN RSome(Mark_Transition(0), [p EXCEPT !.transition_order = 1], -1)
    ELSE IF p.s = <<>>
    THEN REnd([p EXCEPT !.first_page_return = FALSE])
    ELSE scan(p, oc)

\* Parser::next
next(p, oc) ==
    IF ~p.first_page_return
    THEN RSome(Mark_Page, [p EXCEPT !.first_page_return = TRUE], -1)
    ELSE IF p.transition_order = 0
    THEN RSome(Mark_Transition(0), [p EXCEPT !.transition_order = 1], -1)
    ELSE scan(p, oc)

(***************************************************************************)
(* The state machine: a document is tokenized by pulling marks             *)
(***************************************************************************)
\* The consumer of the iterator takes the outcome r of a call of next.  A
\* panic unwinds through the consumer: nothing is pulled after it.
Take(r) ==
    /\ last' = r.tag
    /\ parser' = IF r.tag = "panic" THEN parser ELSE r.p
    /\ out' = IF r.tag = "some" THEN Append(out, r.mark) ELSE out
    /\ at' = IF r.tag # "some" THEN at
             ELSE IF r.rem < 0 THEN Append(at, -1)
             ELSE Append(at, Len(input) - r.rem)

\* One call of Parser::next
Pull ==
    /\ last # "panic"
    /\ Take(next(parser, overflow_checks))
    /\ UNCHANGED <<input, overflow_checks>>

\* The first pull of a tokenizer: the initial Page
PullFirstPage ==
    /\ ~parser.first_page_return
    /\ Pull

\* A pull with the counter at 0: the Transition(0) that opens a page
PullTransition ==
    /\ parser.first_page_return
    /\ parser.transition_order = 0
    /\ Pull

\* Any other pull: the scanning loop
PullScan ==
    /\ parser.first_page_return
    /\ parser.transition_order # 0
    /\ Pull

Next == PullFirstPage \/ PullTransition \/ PullScan

\* Parser::new(s), under either build profile
InitWith(s) ==
    /\ input = s
    /\ overflow_checks \in BOOLEAN
    /\ parser = Parser_new(s)
    /\ out = <<>>
    /\ at = <<>>
    /\ last = "start"

\* All strings over alphabet of length at most n
RECURSIVE Strings(_, _)
Strings(alphabet, n) ==
    IF n = 0 THEN {<<>>}
    ELSE LET shorter == Strings(alphabet, n - 1)
         IN  shorter \cup {Append(w, c) : w \in shorter, c \in alphabet}

\* Documents of at most n lines of the set lines, each two joined by one of
\* the separators seps
RECURSIVE Docs(_, _, _)
Docs(lines, seps, n) ==
    IF n <= 1 THEN lines
    ELSE LET shorter == Docs(lines, seps, n - 1)
         IN  shorter \cup
             {d \o sep \o l : d \in shorter, sep \in seps, l \in lines}

\* The documents above, each with one of the endings ends
DocsEnding(lines, seps, ends, n) ==
    {d \o e : d \in Docs(lines, seps, n), e \in ends}

MaxLen == 4

Alphabet == {"a", "b", " ", NL, "*", BT, "-", "\\"}

Init == \E s \in Strings(Alphabet, MaxLen) : InitWith(s)

Spec == Init /\ [][Next]_vars

(***************************************************************************)
(* Documents pulled to the end                                             *)
(***************************************************************************)
MaxFairLen == 3

FairAlphabet == {"a", NL, "*", BT, "-"}

InitFair == \E s \in Strings(FairAlphabet, MaxFairLen) : InitWith(s)

\* The consumer keeps pulling until a pull returns None or panics: for mark
\* in iter runs to the end
SpecFair == InitFair /\ [][Next]_vars /\ WF_vars(Next)

(***************************************************************************)
(* Documents of page and transition markers                                *)
(***************************************************************************)
MaxTransLines == 4

TransLines ==
    {<<"-", "-", "-">>,
     <<"-", "-", "-", "t">>,
     <<"-", "-", "-", "t", "5">>,
     <<"a">>}

InitTrans ==
    \E s \in DocsEnding(TransLines, {<<NL>>}, {<<>>, <<NL>>}, MaxTransLines) :
        InitWith(s)

SpecTrans == InitTrans /\ [][Next]_vars

(***************************************************************************)
(* Documents of list items                                                 *)
(***************************************************************************)
MaxListLines == 3

ListLines ==
    {<<"7", ".", " ", "a">>,
     <<"1", ".", " ", "b">>,
     <<" ", " ", "7", "1", ".", " ", "d">>,
     <<" ", " ", " ", " ", "1", ".", " ", "a">>,
     <<"x">>,
     <<"-", " ", "b">>}

InitList ==
    \E s \in DocsEnding(ListLines, {<<NL>>, <<NL, NL>>}, {<<>>},
                        MaxListLines) :
        InitWith(s)

SpecList == InitList /\ [][Next]_vars

(***************************************************************************)
(* Documents of two lines with one newline or a blank line between them,   *)
(* after nothing or after an ordered item                                  *)
(***************************************************************************)
BlankHeads == {<<>>, <<"1", ".", " ", "a", NL>>}

BlankLines ==
    {<<"x">>,
     <<"#", " ", "x">>,
     <<"1", ".", " ", "b">>,
     <<"-", " ", "b">>,
     <<">", " ", "x">>,
     <<"-", "-", "-", "-">>,
     <<"-", "-", "-", "-", "v">>,
     <<"-", "-", "-">>,
     <<"-", "-", "-", "t">>,
     <<"t", "-", "-", "-">>}

BlankTails == {<<"1", ".", " ", "c">>, <<"y">>}

InitBlank ==
    \E h \in BlankHeads, l \in BlankLines, sep \in {<<NL>>, <<NL, NL>>},
       tl \in BlankTails :
        InitWith(h \o l \o sep \o tl)

SpecBlank == InitBlank /\ [][Next]_vars

(***************************************************************************)
(* Documents of toggle characters and plain text                           *)
(***************************************************************************)
MaxToggleLen == 4

ToggleAlphabet == {"*", "/", "$", "~", "_", "a", NL}

ToggleExamples ==
    {<<"*", "b", "o", "l", "d", "*">>,
     <<"*", "*", "x", "*", "*">>,
     <<"*", "a", "*", "b", "*", "c", "*">>}

InitToggle ==
    \E s \in Strings(ToggleAlphabet, MaxToggleLen) \cup ToggleExamples :
        InitWith(s)

SpecToggle == InitToggle /\ [][Next]_vars

(***************************************************************************)
(* Documents of one image with options                                     *)
(***************************************************************************)
MaxOpts == 2

ImageTokens ==
    {<<"a", "u", "t", "o">>,
     <<"l", "e", "f", "t">>,
     <<"r", "i", "g", "h", "t">>,
     <<"c", "e", "n", "t", "e", "r">>,
     <<"w", "5", "0">>,
     <<"w", "1", ".", "5">>,
     <<"h", "7">>,
     <<"w">>,
     <<"w", "x">>,
     <<"h", "5", "x">>,
     <<"b", "o", "g", "u", "s">>,
     <<>>}

\* The sequences of 1..n tokens, joined by |
RECURSIVE OptionLists(_)
OptionLists(n) ==
    IF n = 1 THEN ImageTokens
    ELSE OptionLists(n - 1) \cup
         {l \o <<"|">> \o o : l \in OptionLists(n - 1), o \in ImageTokens}

ImageHeads == {<<>>, <<"x", NL>>}

ImageTails == {<<>>, <<NL, "y">>}

InitImage ==
    \E h \in ImageHeads, l \in OptionLists(MaxOpts), tl \in ImageTails :
        InitWith(h \o <<"!", "[", "t", "]", "(", "u", ")", "<">> \o l \o <<">">> \o tl)

SpecImage == InitImage /\ [][Next]_vars

(***************************************************************************)
(* Documents of pages, transitions, transition ends and text               *)
(***************************************************************************)
MaxPageLines == 4

PageLines ==
    {<<"-", "-", "-">>,
     <<"-", "-", "-", "t">>,
     <<"-", "-", "-", "t", "1">>,
     <<"t", "-", "-", "-">>,
     <<"a">>,
     <<"b">>}

InitPages ==
    \E s \in DocsEnding(PageLines, {<<NL>>}, {<<>>, <<NL>>}, MaxPageLines) :
        InitWith(s)

SpecPages == InitPages /\ [][Next]_vars

(***************************************************************************)
(* into_pages over any stream of marks: the loop for mark in iter takes    *)
(* whatever the iterator yields.  out is the stream taken so far.          *)
(***************************************************************************)
MaxStream == 4

ContentMarks == {Mark_NewLine, Mark_Text(<<"a">>, StyleText_new)}

TransitionOrders == {0, 2}

\* The loop takes the mark m from the iterator
Feed(m) ==
    /\ last \in {"start", "some"}
    /\ into_pages(out, overflow_checks).tag = "ok"
    /\ out' = Append(out, m)
    /\ at' = Append(at, -1)
    /\ last' = "some"
    /\ UNCHANGED <<input, overflow_checks, parser>>

FeedPage ==
    /\ Len(out) < MaxStream
    /\ Feed(Mark_Page)

FeedTransition ==
    /\ Len(out) < MaxStream
    /\ \E order \in TransitionOrders : Feed(Mark_Transition(order))

FeedTransitionEnd ==
    /\ Len(out) < MaxStream
    /\ Feed(Mark_TransitionEnd)

FeedContent ==
    /\ Len(out) < MaxStream
    /\ \E m \in ContentMarks : Feed(m)

\* The iterator yields None: the loop ends and pages is returned
FeedNone ==
    /\ last \in {"start", "some"}
    /\ into_pages(out, overflow_checks).tag = "ok"
    /\ last' = "end"
    /\ UNCHANGED <<input, overflow_checks, parser, out, at>>

NextGroup ==
    FeedPage \/ FeedTransition \/ FeedTransitionEnd \/ FeedContent \/ FeedNone

InitGroup == InitWith(<<>>)

SpecGroup == InitGroup /\ [][NextGroup]_vars

(***************************************************************************)
(* Documents of numbered and unnumbered transition markers                 *)
(***************************************************************************)
MaxNumberLines == 4

NumberLines ==
    {<<"-", "-", "-">>,
     <<"-", "-", "-", "t">>,
     <<"-", "-", "-", "t", "1">>,
     <<"-", "-", "-", "t", "1", "2">>,
     <<"-", "-", "-", "t", "x">>,
     <<"-", "-", "-", "t", "1", "x">>}

InitNumber ==
    \E s \in DocsEnding(NumberLines, {<<NL>>}, {<<>>, <<NL>>},
                        MaxNumberLines) :
        InitWith(s)

SpecNumber == InitNumber /\ [][Next]_vars

(***************************************************************************)
(* Documents of fenced code blocks                                         *)
(***************************************************************************)
MaxFenceLines == 4

FenceLines ==
    {<<BT, BT, BT>>,
     <<BT, BT, BT, "c">>,
     <<"a">>}

InitFence ==
    \E s \in DocsEnding(FenceLines, {<<NL>>}, {<<>>, <<NL>>}, MaxFenceLines) :
        InitWith(s)

SpecFence == InitFence /\ [][Next]_vars

(***************************************************************************)
(* Documents of unordered and ordered items                                *)
(***************************************************************************)
MaxBulletLines == 3

BulletLines ==
    {<<"-", " ", "b">>,
     <<" ", " ", "-", " ", "c">>,
     <<" ", " ", " ", " ", "-", " ", "d", " ", "d">>,
     <<"1", ".", " ", "a">>,
     <<"x">>}

InitBullet ==
    \E s \in DocsEnding(BulletLines, {<<NL>>, <<NL, NL>>}, {<<>>},
                        MaxBulletLines) :
        InitWith(s)

SpecBullet == InitBullet /\ [][Next]_vars

(***************************************************************************)
(* Documents of a block marker after the start of a line: something        *)
(* inline, then the marker on the same line or on the next                 *)
(***************************************************************************)
MidHeads ==
    {<<>>,
     <<"a">>,
     <<"*">>,
     <<BT, "a", BT>>,
     <<BT, "a", BT, "x">>,
     <<BT, BT, BT, NL, "a", NL, BT, BT, BT>>,
     <<"<", "u", ">">>,
     <<"\\", "a">>}

MidBlocks ==
    {<<"-", "-", "-", NL>>,
     <<"-", "-", "-", "t">>,
     <<"t", "-", "-", "-", NL>>,
     <<BT, BT, BT, "c", NL, "a", NL, BT, BT, BT>>,
     <<"#", " ", "h">>,
     <<"!", "[", "t", "]", "(", "u", ")">>,
     <<"1", ".", " ", "a">>,
     <<">", " ", "q">>,
     <<"-", "-", "-", "-", NL>>,
     <<"-", " ", "b">>}

MidGaps == {<<>>, <<NL>>}

MidTails == {<<>>, <<"x">>}

InitMid ==
    \E h \in MidHeads, g \in MidGaps, b \in MidBlocks, t \in MidTails :
        InitWith(h \o g \o b \o t)

SpecMid == InitMid /\ [][Next]_vars

(***************************************************************************)
(* Documents of toggles, code spans and escapes around line breaks         *)
(***************************************************************************)
MaxCarryLen == 5

CarryAlphabet == {"*", BT, "\\", NL, "a"}

InitCarry == \E s \in Strings(CarryAlphabet, MaxCarryLen) : InitWith(s)

SpecCarry == InitCarry /\ [][Next]_vars

(***************************************************************************)
(* Documents that take the counters to the end of their range: a           *)
(* transition marker numbered at the top of usize, and a run of ordered    *)
(* items one longer than u8 counts                                         *)
(***************************************************************************)
\* The decimal numeral of n
RECURSIVE Numeral(_)
Numeral(n) ==
    LET d == CHOOSE c \in Digits : DigitValue(c) = n % 10
    IN  IF n < 10 THEN <<d>> ELSE Append(Numeral(n \div 10), d)

\* The line written n times, a newline between each two
Repeat(line, n) ==
    [i \in 1..(n * (Len(line) + 1) - 1) |->
        IF i % (Len(line) + 1) = 0 THEN NL ELSE line[i % (Len(line) + 1)]]

WideOrders == {UsizeMax - 1, UsizeMax}

WideTails == {<<>>, <<NL, "a">>, <<NL, "-", "-", "-", "t">>}

ItemCount == U8Max + 1

WideDocs ==
    {<<"-", "-", "-", "t">> \o Numeral(n) \o t :
        n \in WideOrders, t \in WideTails}
    \cup {Repeat(<<"1", ".", " ", "a">>, ItemCount)}

InitWide == \E s \in WideDocs : InitWith(s)

SpecWide == InitWide /\ [][Next]_vars

(***************************************************************************)
(* The documents, seen from outside the tokenizer                          *)
(***************************************************************************)
Letters == {"a", "b", "c", "d", "l", "o", "x", "t", "u", "v"}

\* Offset of the buffer in the document: what has been consumed
Consumed == Len(input) - Len(parser.s)

\* Offsets where a line of the document starts
LineStarts == {0} \cup {i \in 1..Len(input) : input[i] = NL}

\* Offset of the end of the line that starts at a
LineStop(a) == a + LineEnd(SliceFrom(input, a))

\* The line that starts at a
LineAt(a) == Slice(input, a, LineStop(a))

\* The indices of the marks matched inside the line that starts at a
MarksOfLine(a) == {i \in 1..Len(out) : a <= at[i] /\ at[i] < LineStop(a)}

\* The texts of the marks i..Len(out) matched at offsets below b, joined
RECURSIVE TextsFrom(_, _)
TextsFrom(i, b) ==
    IF i > Len(out) \/ at[i] >= b THEN <<>>
    ELSE out[i].text \o TextsFrom(i + 1, b)

\* The first mark matched at offset a or later
FirstMarkFrom(a) ==
    IF \E i \in 1..Len(out) : at[i] >= a
    THEN CHOOSE i \in 1..Len(out) :
            at[i] >= a /\ \A j \in 1..Len(out) : at[j] >= a => i <= j
    ELSE Len(out) + 1

\* The line that starts at a opens a block: it is the first line of the
\* document or follows a blank line
BlockStart(a) ==
    \/ a = 0
    \/ a >= 2 /\ input[a] = NL /\ input[a - 1] = NL

\* No blank line lies between the offsets x < y of the document
SameBlock(x, y) ==
    ~\E k \in (x + 1)..(y - 1) : input[k] = NL /\ input[k + 1] = NL

\* Half the number of spaces the line at a starts with
Depth(a) ==
    LET line == LineAt(a)
        sp   == CHOOSE k \in 0..Len(line) :
                    /\ \A i \in 1..k : line[i] = " "
                    /\ k < Len(line) => line[k + 1] # " "
    IN  sp \div 2

\* The line at a is an ordered item of indent d: 2d spaces, one or more
\* digits, a full stop and a space
OrderedLine(a, d) ==
    LET line == LineAt(a)
    IN  /\ \A i \in 1..(2 * d) : i <= Len(line) /\ line[i] = " "
        /\ \E m \in 1..(Len(line) - 2 * d - 2) :
              /\ \A i \in 1..m : line[2 * d + i] \in Digits
              /\ line[2 * d + m + 1] = "."
              /\ line[2 * d + m + 2] = " "

\* What follows the full stop and the space in an ordered item
OrderedContent(a) ==
    LET line == LineAt(a)
    IN  SliceFrom(line, Find(line, <<".", " ">>)[1] + 2)

\* Offset of the line after the line at b, when a single newline ends the
\* line at b; -1 when the document ends there
NextLine(b) ==
    IF LineStop(b) >= Len(input) THEN -1 ELSE LineStop(b) + 1

\* The line at b being the n-th of the ordered items of indent d that follow
\* one another from the start of a block: it and the items of the run after
\* it yield Text(content, Ordered(n, d)), Text(content, Ordered(n + 1, d)),
\* and so on, each as soon as the line has been entered
RECURSIVE RunCountsUp(_, _, _)
RunCountsUp(b, n, d) ==
    IF b < 0 \/ d \notin IndentLevels \/ ~OrderedLine(b, d) THEN TRUE
    ELSE /\ (last # "panic" /\ Consumed > b) =>
               \E i \in 1..Len(out) : at[i] = b
         /\ \A i \in 1..Len(out) : at[i] = b =>
               out[i] = Mark_Text(OrderedContent(b),
                            with_listing(StyleText_new,
                                Listing_Ordered(n, d)))
         /\ RunCountsUp(NextLine(b), n + 1, d)

\* out[i] is the Text of an ordered item
IsOrderedMark(i) ==
    /\ out[i].type = "Text"
    /\ out[i].style.listing.kind = "Ordered"

\* The ordered marks before out[i] in the block of out[i]
OrderedBefore(i) ==
    {j \in 1..(i - 1) : IsOrderedMark(j) /\ SameBlock(at[j], at[i])}

\* The last of a non-empty set of indices
Last(set) == CHOOSE j \in set : \A k \in set : k <= j

(***************************************************************************)
(* C1: every pull returns a mark or the end of the input; none panics.     *)
(* The code violates it: an inline code span that ends the input, and a    *)
(* fenced code block with an empty body, index the buffer out of range.    *)
(***************************************************************************)
C1_NoPullPanics == last # "panic"

(***************************************************************************)
(* C2: the empty document yields Page([]), then Transition(0, []), and the *)
(* third pull signals the end of the input.                                *)
(***************************************************************************)
C2_EmptyDocument ==
    input = <<>> =>
        \/ last = "start" /\ out = <<>>
        \/ last = "some" /\ out = <<Mark_Page>>
        \/ last = "some" /\ out = <<Mark_Page, Mark_Transition(0)>>
        \/ last = "end" /\ out = <<Mark_Page, Mark_Transition(0)>>

C2_Witness == input = <<>> /\ last = "end" /\ Len(out) = 2

(***************************************************************************)
(* C10: a line that is a backtick followed by letters, with no closing     *)
(* backtick, yields only Text marks without the code style; the first of   *)
(* them begins with the backtick; once the line is consumed their texts    *)
(* joined are the line; and no pull that starts inside the line panics.    *)
(***************************************************************************)
OpenSpanLine(a) ==
    /\ a \in LineStarts
    /\ LineStop(a) - a >= 2
    /\ input[a + 1] = BT
    /\ \A k \in (a + 2)..LineStop(a) : input[k] \in Letters

C10_OpenSpanIsText ==
    \A a \in 0..Len(input) : OpenSpanLine(a) =>
        /\ \A i \in MarksOfLine(a) :
              /\ out[i].type = "Text"
              /\ ~out[i].style.code
        /\ \A i \in MarksOfLine(a) : at[i] = a => Head(out[i].text) = BT
        /\ last = "panic" => ~(a <= Consumed /\ Consumed < LineStop(a))
        /\ (last # "panic" /\ Consumed >= LineStop(a)) =>
              TextsFrom(FirstMarkFrom(a), LineStop(a)) = LineAt(a)

C10_Witness ==
    /\ input = <<"a", NL, BT, "b">>
    /\ last = "end"
    /\ Len(out) = 5

(***************************************************************************)
(* C3: the first mark pulled is Page([]) and the second Transition(0, []), *)
(* neither standing for a character of the document; when the document     *)
(* opens with a page marker (--- and a newline) or a transition marker     *)
(* (---t...), the mark of that marker is the third mark.                   *)
(***************************************************************************)
C3_BootstrapThenMarker ==
    /\ Len(out) >= 1 => out[1] = Mark_Page /\ at[1] = -1
    /\ Len(out) >= 2 => out[2] = Mark_Transition(0) /\ at[2] = -1
    /\ StartsWith(input, <<"-", "-", "-", NL>>) =>
          /\ Len(out) >= 3 => out[3] = Mark_Page /\ at[3] = 0
          /\ last = "end" => Len(out) >= 3
    /\ StartsWith(input, <<"-", "-", "-", "t">>) =>
          /\ Len(out) >= 3 =>
                /\ out[3].type = "Transition"
                /\ out[3].children = <<>>
                /\ at[3] = 0
          /\ last = "end" => Len(out) >= 3

C3_Witness ==
    /\ input = <<"-", "-", "-", NL, "-", "-", "-", "t">>
    /\ last = "end"
    /\ Len(out) = 5
    /\ out[3] = Mark_Page

(***************************************************************************)
(* C4: for the four lines ---t, ---t, ---t5, ---t the Transition marks of  *)
(* the lines carry the orders 0, 1, 5, 6.  The code violates it: the       *)
(* Transition(0) that opens the page has already set the counter to 1.     *)
(***************************************************************************)
FourTransitions ==
    <<"-", "-", "-", "t", NL,
      "-", "-", "-", "t", NL,
      "-", "-", "-", "t", "5", NL,
      "-", "-", "-", "t">>

C4_Orders_0_1_5_6 ==
    (input = FourTransitions /\ last = "end") =>
        /\ Len(out) = 6
        /\ \A i \in 3..6 : out[i].type = "Transition"
        /\ <<out[3].order, out[4].order, out[5].order, out[6].order>> =
               <<0, 1, 5, 6>>

(***************************************************************************)
(* C5: of n ordered items that follow one another at one indent d from the *)
(* start of a block, the k-th yields Text(content, Ordered(k, d)),         *)
(* whatever digits are written before the full stop.                       *)
(***************************************************************************)
C5_OrdinalsCountUp ==
    \A a \in LineStarts : BlockStart(a) => RunCountsUp(a, 1, Depth(a))

C5_Witness ==
    /\ input = <<"7", ".", " ", "a", NL, "7", ".", " ", "a", NL,
                 "1", ".", " ", "b">>
    /\ last = "end"
    /\ Len(out) = 5
    /\ out[5].style.listing = Listing_Ordered(3, 0)

(***************************************************************************)
(* C6: within a block, an ordered item deeper than the ordered item before *)
(* it gets ordinal 1; one at the same indent or shallower gets 1 + the     *)
(* ordinal of the last item of its own indent in the block (1 if none).    *)
(***************************************************************************)
C6_NestingRestartsAndResumes ==
    \A i \in 1..Len(out) :
        (IsOrderedMark(i) /\ OrderedBefore(i) # {}) =>
            LET l     == out[i].style.listing
                prev  == out[Last(OrderedBefore(i))].style.listing
                same  == {j \in OrderedBefore(i) :
                             out[j].style.listing.indent = l.indent}
                stored == IF same = {} THEN 0
                          ELSE out[Last(same)].style.listing.number
            IN  /\ l.indent > prev.indent => l.number = 1
                /\ l.indent <= prev.indent => l.number = stored + 1

C6_Witness ==
    /\ input = <<"7", ".", " ", "a", NL,
                 " ", " ", "7", "1", ".", " ", "d", NL,
                 "1", ".", " ", "b">>
    /\ last = "end"
    /\ Len(out) = 5
    /\ out[4].style.listing = Listing_Ordered(1, 1)
    /\ out[5].style.listing = Listing_Ordered(2, 0)

(***************************************************************************)
(* C7: a blank line between two lines yields exactly one NewLine mark and  *)
(* resets the list state, so that an ordered item after it gets ordinal 1, *)
(* whatever kind of line precedes the blank line; a single newline before  *)
(* more text yields no mark.                                               *)
(***************************************************************************)
\* The list state is the one reset_indent_orderer_number_map and the
\* newline arm leave
ListStateReset ==
    /\ ~parser.is_ordered
    /\ ~parser.is_unordered
    /\ parser.ordered_list_current_indent_level_int = 0
    /\ parser.indent_orderer_number_map = reset_indent_orderer_number_map

\* C7: one NewLine mark per blank line, the list state reset after it, the
\* ordered item after it numbered 1; no mark for a single newline
C7_BlankLineResets ==
    \A k \in 1..(Len(input) - 1) :
        (input[k] = NL /\ last # "panic") =>
            IF input[k + 1] = NL
            THEN Consumed >= k + 1 =>
                   /\ Cardinality({i \in 1..Len(out) :
                          out[i] = Mark_NewLine /\ at[i] = k - 1}) = 1
                   /\ Consumed = k + 1 => ListStateReset
                   /\ \A i \in 1..Len(out) :
                          (at[i] = k + 1 /\ IsOrderedMark(i)) =>
                              out[i].style.listing.number = 1
            ELSE \A i \in 1..Len(out) : at[i] # k - 1

(***************************************************************************)
(* C8: the toggle characters yield no mark and flip their flag: each flag  *)
(* of a plain text run is the parity of the number of its toggle character *)
(* between the start of the line and the run; *bold* yields one Text       *)
(* (bold, bold flag alone), **x** one Text (x, no flag), and *a*b*c* gives *)
(* a bold, b not bold, c bold.                                             *)
(***************************************************************************)
\* Offset of the start of the line that holds offset o
LineStartOf(o) ==
    CHOOSE a \in LineStarts :
        a <= o /\ \A b \in LineStarts : b <= o => b <= a

\* The number of occurrences of c in the line of offset o, before o, is odd
Odd(c, o) ==
    Cardinality({k \in (LineStartOf(o) + 1)..o : input[k] = c}) % 2 = 1

\* The style of a plain run at offset o, by the parity of each toggle
ParityStyle(o) ==
    [StyleText_new EXCEPT !.bold          = Odd("*", o),
                          !.italics       = Odd("/", o),
                          !.small         = Odd("$", o),
                          !.strikethrough = Odd("~", o),
                          !.underline     = Odd("_", o)]

\* The marks after the two that open every document
Body == SubSeq(out, 3, Len(out))

\* C8: no mark at a toggle; the flags of a Text are the parities of the
\* toggles before it on its line; the three documents of bold runs
C8_TogglesFlipByParity ==
    /\ \A i \in 1..Len(out) : at[i] >= 0 =>
          /\ input[at[i] + 1] \notin Toggles
          /\ out[i].type = "Text" =>
                /\ \A k \in 1..Len(out[i].text) :
                      out[i].text[k] \notin Toggles
                /\ out[i].style = ParityStyle(at[i])
    /\ (last = "end" /\ input = <<"*", "b", "o", "l", "d", "*">>) =>
          Body = <<Mark_Text(<<"b", "o", "l", "d">>,
                       [StyleText_new EXCEPT !.bold = TRUE])>>
    /\ (last = "end" /\ input = <<"*", "*", "x", "*", "*">>) =>
          Body = <<Mark_Text(<<"x">>, StyleText_new)>>
    /\ (last = "end" /\ input = <<"*", "a", "*", "b", "*", "c", "*">>) =>
          Body = <<Mark_Text(<<"a">>, [StyleText_new EXCEPT !.bold = TRUE]),
                   Mark_Text(<<"b">>, StyleText_new),
                   Mark_Text(<<"c">>, [StyleText_new EXCEPT !.bold = TRUE])>>

C8_Witness ==
    /\ input = <<"*", "a", "*", "b", "*", "c", "*">>
    /\ last = "end"
    /\ Len(out) = 5
    /\ out[4].type = "Text" /\ ~out[4].style.bold

(***************************************************************************)
(* C9: ![t](u) at the start of a line, followed by <o1|o2|...>, yields     *)
(* Image(u, t, style), the options applied left to right: auto, left,      *)
(* right, center set align_h; w and a number sets width; h and a number    *)
(* sets height; w or h and anything else, or any other token, sets         *)
(* hyperlink to the token.  <w50> gives width 50 and no hyperlink; <bogus> *)
(* gives hyperlink bogus and no width or height.                           *)
(***************************************************************************)
\* The decimal numeral int.frac as a parsed f32
Decimal(int, frac) ==
    [kind |-> "num", neg |-> FALSE, int |-> int, frac |-> frac]

\* What each option of the documents is to do, by the rules above
OptionEffect(style, o) ==
    CASE o = <<"a", "u", "t", "o">> -> [style EXCEPT !.align_h = "Auto"]
      [] o = <<"l", "e", "f", "t">> -> [style EXCEPT !.align_h = "Left"]
      [] o = <<"r", "i", "g", "h", "t">> -> [style EXCEPT !.align_h = "Right"]
      [] o = <<"c", "e", "n", "t", "e", "r">> ->
            [style EXCEPT !.align_h = "Center"]
      [] o = <<"w", "5", "0">> ->
            [style EXCEPT !.width = <<Decimal(<<"5", "0">>, <<>>)>>]
      [] o = <<"w", "1", ".", "5">> ->
            [style EXCEPT !.width = <<Decimal(<<"1">>, <<"5">>)>>]
      [] o = <<"h", "7">> ->
            [style EXCEPT !.height = <<Decimal(<<"7">>, <<>>)>>]
      [] OTHER -> [style EXCEPT !.hyperlink = o]

RECURSIVE OptionEffects(_, _)
OptionEffects(style, options) ==
    IF options = <<>> THEN style
    ELSE OptionEffects(OptionEffect(style, Head(options)), Tail(options))

\* Offset of the image in the document, and the options written after it
ImageAt == Find(input, <<"!", "[">>)[1]

OptionsWritten ==
    Split(Slice(input, Find(input, <<"<">>)[1] + 1,
                Find(input, <<">">>)[1]), "|")

NoOptions ==
    [align_h |-> "Auto", hyperlink |-> <<>>, width |-> <<>>, height |-> <<>>]

\* C9: the image yields Image(u, t, style), style being the options
\* written, applied left to right; the documents of w50 and of bogus
C9_ImageOptions ==
    /\ (last # "panic" /\ Consumed > ImageAt) =>
          \E i \in 1..Len(out) : at[i] = ImageAt
    /\ \A i \in 1..Len(out) : at[i] = ImageAt =>
          out[i] = Mark_Image(<<"u">>, <<"t">>,
                       OptionEffects(NoOptions, OptionsWritten))
    /\ (last = "end" /\ input = <<"!", "[", "t", "]", "(", "u", ")", "<", "w", "5", "0", ">">>) =>
          Body = <<Mark_Image(<<"u">>, <<"t">>,
                       [NoOptions EXCEPT
                           !.width = <<Decimal(<<"5", "0">>, <<>>)>>])>>
    /\ (last = "end" /\ input = <<"!", "[", "t", "]", "(", "u", ")", "<", "b", "o", "g", "u", "s", ">">>) =>
          Body = <<Mark_Image(<<"u">>, <<"t">>,
                       [NoOptions EXCEPT
                           !.hyperlink = <<"b", "o", "g", "u", "s">>])>>

C9_Witness ==
    /\ input = <<"!", "[", "t", "]", "(", "u", ")", "<", "w", "5", "0", "|", "w", "x", ">">>
    /\ last = "end"
    /\ Len(out) = 3
    /\ out[3].image_style.hyperlink = <<"w", "x">>
    /\ out[3].image_style.width # <<>>

(***************************************************************************)
(* The pages into_pages has built from the marks pulled so far             *)
(***************************************************************************)
Grouped == into_pages(out, overflow_checks)

Structural == {"Page", "Transition", "TransitionEnd"}

IsContent(m) == m.type \notin Structural

\* The content marks of a stream, in stream order
ContentOf(marks) == SelectSeq(marks, IsContent)

\* The sequences of a sequence, joined
RECURSIVE Concat(_)
Concat(seqs) ==
    IF seqs = <<>> THEN <<>> ELSE Head(seqs) \o Concat(Tail(seqs))

\* The transitions of the pages, page after page
TransitionsOf(pages) ==
    Concat([k \in 1..Len(pages) |-> pages[k][1].children])

\* The children of the transitions of the pages, read in order
ChildrenOf(pages) ==
    LET ts == TransitionsOf(pages)
    IN  Concat([j \in 1..Len(ts) |-> ts[j].children])

(***************************************************************************)
(* C11: the number of content marks (not Page, Transition, TransitionEnd)  *)
(* attached under the transitions of the pages equals their number in the  *)
(* flat stream: none is dropped, none is duplicated.                       *)
(***************************************************************************)
\* C11: into_pages keeps every content mark exactly once
C11_NoMarkDroppedOrDuplicated ==
    /\ Grouped.tag = "ok"
    /\ Len(ChildrenOf(Grouped.v)) = Len(ContentOf(out))
    /\ \A k \in 1..Len(ChildrenOf(Grouped.v)) :
          IsContent(ChildrenOf(Grouped.v)[k])

C11_Witness ==
    /\ input = <<"a", NL, "t", "-", "-", "-", NL, "b">>
    /\ last = "end"
    /\ Len(ContentOf(out)) = 2
    /\ Len(ChildrenOf(Grouped.v)) = 2

(***************************************************************************)
(* C12: into_pages keeps the order: one record per Page mark, in order;    *)
(* the transitions of the pages in stream order; the children read page by *)
(* page and transition by transition are the content marks as emitted; and *)
(* a content mark just processed is the last child of the last transition  *)
(* of the last page.                                                       *)
(***************************************************************************)
\* The order a Transition or TransitionEnd of the stream leaves in a page
OrderLeft(m) == IF m.type = "Transition" THEN m.order ELSE 0

OpensTransition(m) == m.type \in {"Transition", "TransitionEnd"}

IsPage(m) == m.type = "Page"

\* C12: pages, transitions and contents keep the order of the stream
C12_OrderPreserved ==
    LET pages == Grouped.v
        ts    == TransitionsOf(pages)
        opens == SelectSeq(out, OpensTransition)
    IN  /\ Grouped.tag = "ok"
        /\ Len(pages) = Len(SelectSeq(out, IsPage))
        /\ \A k \in 1..Len(pages) : pages[k][1].type = "Page"
        /\ [j \in 1..Len(ts) |-> ts[j].order] =
              [j \in 1..Len(opens) |-> OrderLeft(opens[j])]
        /\ ChildrenOf(pages) = ContentOf(out)
        /\ (out # <<>> /\ IsContent(out[Len(out)])) =>
              LET cur == pages[Len(pages)][1].children
                  ch  == cur[Len(cur)].children
              IN  ch # <<>> /\ ch[Len(ch)] = out[Len(out)]

C12_Witness ==
    /\ input = <<"b", NL, "-", "-", "-", NL, "-", "-", "-", "t", "1", NL, "a">>
    /\ last = "end"
    /\ Len(Grouped.v) = 2
    /\ Len(TransitionsOf(Grouped.v)) = 3
    /\ ChildrenOf(Grouped.v) =
          <<Mark_Text(<<"b">>, StyleText_new), Mark_Text(<<"a">>, StyleText_new)>>

(***************************************************************************)
(* C13: once a pull has signalled the end of the input, a further pull on  *)
(* the same tokenizer signals the end again, yields no mark (no Page or    *)
(* Transition to open the document anew) and leaves the tokenizer as it    *)
(* was, so that every later pull does the same.                            *)
(***************************************************************************)
\* C13: after the end every further pull signals the end and changes nothing
C13_NotRestartable ==
    last = "end" =>
        /\ next(parser, overflow_checks).tag = "end"
        /\ next(parser, overflow_checks).p = parser

C13_Witness ==
    /\ last = "end"
    /\ input = <<"a", NL, "b">>
    /\ Len(out) = 4
    /\ next(parser, overflow_checks).tag = "end"

(***************************************************************************)
(* C14: for every finite input the marks are finitely many: the buffer     *)
(* never grows, a pull that returns a mark matched in the document removes *)
(* at least one character, and the end of the input is eventually          *)
(* signalled.  The code violates the last part: a pull that panics signals *)
(* nothing.                                                                *)
(***************************************************************************)
\* A pull leaves the buffer no longer than it was
BufferNeverGrows == Len(parser'.s) <= Len(parser.s)

\* A pull that returns a mark matched in the document shortens the buffer
MarkConsumes ==
    (Len(out') > Len(out) /\ at'[Len(at')] >= 0) =>
        Len(parser'.s) < Len(parser.s)

C14_Progress == [][BufferNeverGrows /\ MarkConsumes]_vars

C14_EndSignalled == <>(last = "end")

\* C14: every pull consumes input or is the last, and the end is signalled
C14_FiniteAndEnds == C14_Progress /\ C14_EndSignalled

C14_EndsOrPanics == <>(last \in {"end", "panic"})

(***************************************************************************)
(* C15: in every record (page, n, i) of into_pages, n is the number of     *)
(* Transition elements of the page.  The code violates it: n is the        *)
(* greatest order among them.                                              *)
(***************************************************************************)
\* C15: the second field of a page counts its transitions
C15_SecondFieldCounts ==
    (last = "end" /\ Grouped.tag = "ok") =>
        \A k \in 1..Len(Grouped.v) :
            Grouped.v[k][2] = Len(Grouped.v[k][1].children)

(***************************************************************************)
(* C16: in every record (page, m, i) of into_pages, m is the greatest      *)
(* order among the Transition marks of the stream that belong to the page  *)
(* (0 when none is greater), and i is 0.                                   *)
(***************************************************************************)
\* The number of Page marks among the first i marks of the stream
PagesUpTo(i) == Len(SelectSeq(SubSeq(out, 1, i), IsPage))

\* The orders of the Transition marks of the stream in its k-th page
StreamOrders(k) ==
    {out[i].order : i \in {j \in 1..Len(out) :
                              /\ out[j].type = "Transition"
                              /\ PagesUpTo(j) = k}}

\* The greatest of a non-empty finite set of numbers
Greatest(S) == CHOOSE x \in S : \A y \in S : y <= x

OpenPositions ==
    SelectSeq([i \in 1..Len(out) |-> i], LAMBDA i : OpensTransition(out[i]))

\* The content marks that follow position i of the stream, up to the next
\* Page, Transition or TransitionEnd
RECURSIVE RunAfter(_)
RunAfter(i) ==
    IF i + 1 > Len(out) THEN <<>>
    ELSE IF ~IsContent(out[i + 1]) THEN <<>>
    ELSE <<out[i + 1]>> \o RunAfter(i + 1)

\* C17: the transition opened by a transition end stays empty
C17_FreshTransitionStaysEmpty ==
    LET ts == TransitionsOf(Grouped.v)
    IN  /\ Grouped.tag = "ok"
        /\ Len(ts) = Len(OpenPositions)
        /\ \A j \in 1..Len(ts) :
              out[OpenPositions[j]].type = "TransitionEnd" =>
                  ts[j] = Mark_Transition(0)

(***************************************************************************)
(* C17, amended: the Transition that into_pages appends for a              *)
(* TransitionEnd has order 0 and receives as children the content marks    *)
(* that follow the TransitionEnd, up to the next Page, Transition or       *)
(* TransitionEnd mark.                                                     *)
(***************************************************************************)
\* C17, amended: the transition opened by a transition end takes the content after it
C17_FreshTransitionTakesWhatFollows ==
    LET ts == TransitionsOf(Grouped.v)
    IN  /\ Grouped.tag = "ok"
        /\ Len(ts) = Len(OpenPositions)
        /\ \A j \in 1..Len(ts) :
              out[OpenPositions[j]].type = "TransitionEnd" =>
                  /\ ts[j].type = "Transition"
                  /\ ts[j].order = 0
                  /\ ts[j].children = RunAfter(OpenPositions[j])

C17_Witness ==
    /\ input = <<"a", NL, "t", "-", "-", "-", NL, "b", NL, "a">>
    /\ last = "end"
    /\ Len(TransitionsOf(Grouped.v)) = 2
    /\ Len(TransitionsOf(Grouped.v)[2].children) = 2

RECURSIVE NumberOf(_)
NumberOf(str) ==
    IF str = <<>> THEN 0
    ELSE 10 * NumberOf(SubSeq(str, 1, Len(str) - 1))
         + DigitValue(str[Len(str)])

AllDigits(str) == str # <<>> /\ \A k \in 1..Len(str) : str[k] \in Digits

\* The order of the last Transition mark of the stream before out[i]
OrderBefore(i) ==
    LET js == {j \in 1..(i - 1) : out[j].type = "Transition"}
    IN  out[Last(js)].order

PageLine(a) ==
    /\ LineAt(a) = <<"-", "-", "-">>
    /\ LineStop(a) < Len(input)

\* C20: Transition(0) follows every Page mark, so each page starts with order 0
C20_PageThenTransition0 ==
    /\ Len(out) >= 1 => out[1] = Mark_Page
    /\ \A a \in LineStarts : PageLine(a) =>
          /\ (last # "panic" /\ Consumed > a) =>
                \E i \in 1..Len(out) : at[i] = a
          /\ \A i \in 1..Len(out) : at[i] = a => out[i] = Mark_Page
    /\ \A i \in 1..Len(out) : out[i].type = "Page" =>
          IF i < Len(out) THEN out[i + 1] = Mark_Transition(0)
          ELSE last = "some"
    /\ last = "end" =>
          /\ Grouped.tag = "ok"
          /\ Grouped.v # <<>>
          /\ \A k \in 1..Len(Grouped.v) :
                /\ Grouped.v[k][1].children # <<>>
                /\ Grouped.v[k][1].children[1].order = 0

C20_Witness ==
    /\ input = <<"a", NL, "-", "-", "-", NL, "-", "-", "-", NL>>
    /\ last = "end"
    /\ Len(out) = 7
    /\ out[6] = Mark_Page
    /\ out[7] = Mark_Transition(0)
    /\ Len(Grouped.v) = 3

(***************************************************************************)
(* C21: an inline code span consumes the opening backtick, the content and *)
(* the closing backtick and nothing else: right after the pull that        *)
(* emitted Text(content, code) the buffer starts with the character after  *)
(* the closing backtick.                                                   *)
(***************************************************************************)
\* The mark i is the text of an inline code span
IsCodeSpan(i) == out[i].type = "Text" /\ out[i].style.code

\* The offset right after the closing backtick of the span of mark i
SpanStop(i) == at[i] + Len(out[i].text) + 2

\* C21: after a code span the buffer starts right after its closing backtick
C21_SpanConsumesExactly ==
    (last = "some" /\ Len(out) >= 1 /\ IsCodeSpan(Len(out))) =>
        Consumed = SpanStop(Len(out))

\* What the code does: the buffer starts one character further
C21_SpanConsumesOneMore ==
    (last = "some" /\ Len(out) >= 1 /\ IsCodeSpan(Len(out))) =>
        Consumed = SpanStop(Len(out)) + 1

(***************************************************************************)
(* C22: a fenced code block at a line start yields CodeBlock(body,         *)
(* language): language is the rest of the opening line (none when empty),  *)
(* the closing fence is the next line that is exactly three backticks, and *)
(* body is the text between the newline of the opening line and the        *)
(* newline before the closing fence, empty when the closing fence is the   *)
(* very next line.  Without a closing fence no CodeBlock is emitted.       *)
(***************************************************************************)
Fence == <<BT, BT, BT>>

\* The offset where the line after the line at a starts; beyond the
\* document when there is none
LineAfter(a) ==
    IF LineStop(a) < Len(input) THEN LineStop(a) + 1 ELSE Len(input) + 1

\* The start of the first line after the line at a that is exactly a
\* fence, -1 when there is none
ClosingFence(a) ==
    LET closers == {c \in LineStarts : c > a /\ LineAt(c) = Fence}
    IN  IF closers = {} THEN -1
        ELSE CHOOSE c \in closers : \A d \in closers : c <= d

\* The start of the first line after the line at a that starts with a
\* fence, -1 when there is none
ClosingPrefix(a) ==
    LET closers == {c \in LineStarts : c > a /\ StartsWith(LineAt(c), Fence)}
    IN  IF closers = {} THEN -1
        ELSE CHOOSE c \in closers : \A d \in closers : c <= d

\* The lines from offset a on that open a fenced block, read line by line:
\* a line inside a block opens none
RECURSIVE Openers(_)
Openers(a) ==
    IF a > Len(input) THEN {}
    ELSE IF StartsWith(LineAt(a), Fence) /\ ClosingFence(a) >= 0
    THEN {a} \cup Openers(LineAfter(ClosingFence(a)))
    ELSE Openers(LineAfter(a))

\* The lines that start with a fence outside every block and have no
\* closing fence after them
RECURSIVE Unclosed(_)
Unclosed(a) ==
    IF a > Len(input) THEN {}
    ELSE IF StartsWith(LineAt(a), Fence)
    THEN IF ClosingFence(a) >= 0 THEN Unclosed(LineAfter(ClosingFence(a)))
         ELSE {a} \cup Unclosed(LineAfter(a))
    ELSE Unclosed(LineAfter(a))

\* The block that opens at a, as the document writes it
BlockAt(a) ==
    LET rest == SliceFrom(LineAt(a), 3)
    IN  Mark_CodeBlock(Slice(input, LineStop(a) + 1, ClosingFence(a) - 1),
                       IF rest = <<>> THEN <<>> ELSE <<rest>>)

\* C22: an opening fence yields the block up to the next line that is a fence
C22_FencedBlock ==
    /\ \A a \in Openers(0) :
          /\ last = "panic" => Consumed # a
          /\ (last # "panic" /\ Consumed > a) =>
                \E i \in 1..Len(out) : at[i] = a
          /\ \A i \in 1..Len(out) : at[i] = a => out[i] = BlockAt(a)
    /\ \A a \in Unclosed(0) :
          \A i \in 1..Len(out) : at[i] = a => out[i].type # "CodeBlock"

\* The documents whose blocks have a body of at least one line and whose
\* lines that start with a fence, after an opening fence, are exactly a fence
FilledBlocks ==
    /\ \A a \in Openers(0) :
          /\ ClosingFence(a) > LineAfter(a)
          /\ ClosingPrefix(a) = ClosingFence(a)
    /\ \A a \in Unclosed(0) : ClosingPrefix(a) = -1

\* What the code does: the blocks of such documents are as written
C22_FilledBlocksAsWritten == FilledBlocks => C22_FencedBlock

C22_FilledBlockReached ==
    /\ input = <<BT, BT, BT, "c", NL, "a", NL, "a", NL, BT, BT, BT>>
    /\ last = "end"
    /\ Len(out) = 3
    /\ out[3] = Mark_CodeBlock(<<"a", NL, "a">>, <<(<<"c">>)>>)

(***************************************************************************)
(* C23: an unordered item - X after 2d spaces at a line start yields       *)
(* Text(X, Unordered(d)), X being the rest of the line after the hyphen    *)
(* and the space, as for an ordered item; the pull sets is_unordered and   *)
(* leaves the ordinals of the ordered lists alone.                         *)
(***************************************************************************)
\* The line at a is an unordered item of indent d: 2d spaces, a hyphen and
\* a space
UnorderedLine(a, d) ==
    LET line == LineAt(a)
    IN  /\ d \in IndentLevels
        /\ Len(line) >= 2 * d + 2
        /\ \A i \in 1..(2 * d) : line[i] = " "
        /\ line[2 * d + 1] = "-"
        /\ line[2 * d + 2] = " "

\* The mark of an unordered item with the text from offset k of its line
UnorderedFrom(a, k) ==
    Mark_Text(SliceFrom(LineAt(a), k),
              with_listing(StyleText_new, Listing_Unordered(Depth(a))))

\* C23: the text of an unordered item is what follows the hyphen and the space
C23_UnorderedContent ==
    \A a \in LineStarts : UnorderedLine(a, Depth(a)) =>
        /\ (last # "panic" /\ Consumed > a) => \E i \in 1..Len(out) : at[i] = a
        /\ \A i \in 1..Len(out) : at[i] = a =>
              /\ out[i] = UnorderedFrom(a, 2 * Depth(a) + 2)
              /\ (i = Len(out) /\ last = "some") => parser.is_unordered

\* What the code does: the text starts at the space after the hyphen
C23_UnorderedKeepsSpace ==
    \A a \in LineStarts : UnorderedLine(a, Depth(a)) =>
        /\ (last # "panic" /\ Consumed > a) => \E i \in 1..Len(out) : at[i] = a
        /\ \A i \in 1..Len(out) : at[i] = a =>
              /\ out[i] = UnorderedFrom(a, 2 * Depth(a) + 1)
              /\ (i = Len(out) /\ last = "some") => parser.is_unordered

\* The pull of an unordered item leaves the ordinals of the ordered lists,
\* and the indent of the current ordered list, as they were
C23_OrdinalsKept ==
    [][(last' = "some" /\ Len(out') > Len(out)
        /\ out'[Len(out')].type = "Text"
        /\ out'[Len(out')].style.listing.kind = "Unordered") =>
            /\ parser'.indent_orderer_number_map =
                   parser.indent_orderer_number_map
            /\ parser'.ordered_list_current_indent_level_int =
                   parser.ordered_list_current_indent_level_int
            /\ parser'.is_ordered = parser.is_ordered]_vars

C23_UnorderedReached ==
    /\ input = <<"1", ".", " ", "a", NL, " ", " ", "-", " ", "c">>
    /\ last = "end"
    /\ Len(out) = 4
    /\ out[4].text = <<" ", "c">>

(***************************************************************************)
(* C24: the block productions (page, transition, transition end, code      *)
(* block, heading, image, ordered item, quote, separator, unordered item)  *)
(* match only at a true line start: the first character of every such     *)
(* mark is at offset 0 of the document or right after a newline.           *)
(***************************************************************************)
\* The mark m is the mark of a block production
IsBlockMark(m) ==
    \/ m.type \in {"Page", "Transition", "TransitionEnd", "CodeBlock",
                   "Image", "Separator"}
    \/ /\ m.type = "Text"
       /\ \/ m.style.heading # StyleText_new.heading
          \/ m.style.listing # Listing_None
          \/ m.style.quote

\* The offset o of the document is the start of a line
TrueLineStart(o) == o = 0 \/ input[o] = NL

\* C24: every mark of a block production stands at the start of a line
C24_BlocksAtLineStart ==
    \A i \in 1..Len(out) :
        (at[i] >= 0 /\ IsBlockMark(out[i])) => TrueLineStart(at[i])

\* What the code keeps: a block mark in the middle of a line comes right
\* after an inline code span or a code block at the start of that line
C24_MidLineOnlyAfterCode ==
    \A i \in 1..Len(out) :
        (at[i] >= 0 /\ IsBlockMark(out[i]) /\ ~TrueLineStart(at[i])) =>
            /\ i > 1
            /\ \/ out[i - 1].type = "CodeBlock"
               \/ out[i - 1].type = "Text" /\ out[i - 1].style.code

(***************************************************************************)
(* C25: the toggle state never crosses a line break: the style of a plain  *)
(* text run is made of the toggles consumed on its own line, after the     *)
(* last newline character of the document before it.                       *)
(***************************************************************************)
\* The mark i is the Text of an escape: a backslash and one more character
IsEscape(i) ==
    /\ out[i].type = "Text"
    /\ at[i] >= 0
    /\ at[i] + 1 < Len(input)
    /\ input[at[i] + 1] = "\\"

\* The mark i is a plain text run: a Text in the accumulated style
IsPlainRun(i) ==
    /\ out[i].type = "Text"
    /\ at[i] >= 0
    /\ ~out[i].style.code
    /\ ~IsEscape(i)
    /\ ~IsBlockMark(out[i])

\* The number of characters of the document the mark i stands for
Extent(i) ==
    IF IsCodeSpan(i) THEN Len(out[i].text) + 2
    ELSE IF IsEscape(i) THEN 2
    ELSE IF out[i].type = "Text" THEN Len(out[i].text)
    ELSE 0

\* The offsets in a..(o - 1) of the characters c consumed as toggles: those
\* no mark stands for
ToggledAt(c, a, o) ==
    {k \in a..(o - 1) :
        /\ input[k + 1] = c
        /\ ~\E j \in 1..Len(out) :
              at[j] >= 0 /\ at[j] <= k /\ k < at[j] + Extent(j)}

\* The style made of the toggles consumed on the line of offset o, before o
OwnLineStyle(o) ==
    LET a      == LineStartOf(o)
        odd(c) == Cardinality(ToggledAt(c, a, o)) % 2 = 1
    IN  [StyleText_new EXCEPT !.bold          = odd("*"),
                              !.italics       = odd("/"),
                              !.small         = odd("$"),
                              !.strikethrough = odd("~"),
                              !.underline     = odd("_")]

\* C25: a plain run carries only the toggles consumed on its own line
C25_NoStyleAcrossLines ==
    \A i \in 1..Len(out) : IsPlainRun(i) => out[i].style = OwnLineStyle(at[i])

\* The newline that ends the line before offset o was consumed by the
\* newline arm: no code span and no escape reaches over it
BrokenByNewlineArm(o) ==
    LET a == LineStartOf(o)
    IN  a > 0 =>
            ~\E j \in 1..Len(out) :
                /\ at[j] >= 0
                /\ at[j] < a
                /\ \/ IsEscape(j) /\ at[j] + 2 >= a
                   \/ IsCodeSpan(j) /\ at[j] + Extent(j) + 1 >= a

\* What the code keeps: on a line that no code span or escape before its
\* newline reaches, and up to the first code span of the line
C25_ClearedByNewlineArm ==
    \A i \in 1..Len(out) :
        (/\ IsPlainRun(i)
         /\ BrokenByNewlineArm(at[i])
         /\ ~\E j \in 1..Len(out) :
               IsCodeSpan(j) /\ LineStartOf(at[i]) <= at[j] /\ at[j] < at[i])
        => out[i].style = OwnLineStyle(at[i])

C25_ClearedReached ==
    /\ input = <<"*", "a", NL, "a">>
    /\ last = "end"
    /\ Len(out) = 4
    /\ out[3].style.bold
    /\ ~out[4].style.bold

(***************************************************************************)
(* C26: the counters neither overflow nor wrap: for every N that ---tN     *)
(* writes as a usize, the largest included, the pull yields                *)
(* Transition(N, []) and the counter becomes N + 1, so that no             *)
(* Transition(0, []) of a bootstrap follows; and the ordinal of an ordered *)
(* item is one more than that of the item before it at the same indent,    *)
(* past 255 items too.                                                     *)
(***************************************************************************)
\* The mark i is the Transition of a marker line that writes a usize
IsNumbered(i) ==
    /\ out[i].type = "Transition"
    /\ at[i] >= 0
    /\ ParseUsize(SliceFrom(LineAt(at[i]), 4)) # <<>>

\* The mark i + 1 is the ordered item of the line after the ordered item
\* of mark i, at the same indent
ItemAfterItem(i) ==
    /\ i + 1 <= Len(out)
    /\ IsOrderedMark(i)
    /\ IsOrderedMark(i + 1)
    /\ out[i + 1].style.listing.indent = out[i].style.listing.indent

\* C26: no counter overflows or wraps
C26_CountersDoNotWrap ==
    /\ last # "panic"
    /\ \A i \in 1..Len(out) : IsNumbered(i) =>
          LET N == ParseUsize(SliceFrom(LineAt(at[i]), 4))[1]
          IN  /\ out[i] = Mark_Transition(N)
              /\ (i = Len(out) /\ last = "some") =>
                    parser.transition_order = N + 1
              /\ i < Len(out) => at[i + 1] >= 0
    /\ \A i \in 1..Len(out) : ItemAfterItem(i) =>
          out[i + 1].style.listing.number = out[i].style.listing.number + 1

\* The buffer after the newline the next pull skips
Ahead == IF StartsWith(parser.s, <<NL>>) THEN Tail(parser.s) ELSE parser.s

\* What the code keeps: below the top of their range the counters count
C26_CountsBelowTheTop ==
    /\ \A i \in 1..Len(out) :
          (IsNumbered(i) /\ out[i].order < UsizeMax) =>
              LET N == ParseUsize(SliceFrom(LineAt(at[i]), 4))[1]
              IN  /\ out[i] = Mark_Transition(N)
                  /\ (i = Len(out) /\ last = "some") =>
                        parser.transition_order = N + 1
                  /\ i < Len(out) => at[i + 1] >= 0
    /\ \A i \in 1..Len(out) :
          (ItemAfterItem(i) /\ out[i].style.listing.number < U8Max) =>
              out[i + 1].style.listing.number =
                  out[i].style.listing.number + 1
    /\ last = "panic" =>
          \/ /\ StartsWith(Ahead, <<"-", "-", "-", "t">>)
             /\ transition_order_of(parser, Slice(Ahead, 0, LineEnd(Ahead)))
                    = UsizeMax
          \/ /\ Len(out) >= 1
             /\ IsOrderedMark(Len(out))
             /\ out[Len(out)].style.listing.number = U8Max

C26_TopReached ==
    /\ Len(out) = U8Max + 2
    /\ IsOrderedMark(Len(out))
    /\ out[Len(out)].style.listing.number = U8Max
    /\ last = "some"

====
